---- MODULE Spec2Model ----
(***************************************************************************)
(* State-machine model of the phase-gated task delegation core of the      *)
(* ai_agent_sdk package: RulesEngine (core/rules_engine.py), AgentRegistry *)
(* and TeamLeader (core/team_leader.py), TaskOrchestrator                  *)
(* (core/task_orchestrator.py) and the prompt cache of ContextManager      *)
(* (core/context_manager.py).                                              *)
(*                                                                         *)
(* The specifications share the variables:                                 *)
(*   SpecRules      one caller using a RulesEngine directly;               *)
(*   SpecRegistry   one caller using an AgentRegistry directly;            *)
(*   SpecContext    a ContextManager whose load_prompt calls interleave    *)
(*                  with rewrites of the prompt file and the watcher;      *)
(*   SpecWatcher    the same over a prompt file with an underscore in      *)
(*                  its name;                                              *)
(*   SpecCache      a ContextManager over a directory with one prompt      *)
(*                  file more than the cache holds;                        *)
(*   SpecDefaults   a ContextManager over the prompts it writes itself;    *)
(*   SpecQueue      the background queue of the TaskOrchestrator;          *)
(*   SpecQueueFair  the same with the scheduling of the event loop;        *)
(*   SpecLifecycle  a TeamLeader initialized, shut down and initialized    *)
(*                  again, with the calls refused in between;              *)
(*   Spec           a TeamLeader with several delegate_task calls in       *)
(*                  flight, interleaving at their suspension points, with  *)
(*                  cancel_task, the timeout sweep and shutdown.           *)
(***************************************************************************)
EXTENDS Integers, Sequences, FiniteSets, TLC

VARIABLES
    \* RulesEngine
    current_phase,            \* self.current_phase
    phase_history,            \* self.phase_history
    complexity_budget,        \* self.complexity_budget
    current_complexity_used,  \* self.current_complexity_used
    rules_agent_registry,     \* keys of RulesEngine.agent_registry
    rules_task_history,       \* RulesEngine.task_history (task ids, in order)
    last_call,                \* the last operation called and what it returned
    next_id,                  \* number of task ids handed out so far
    \* AgentRegistry
    agents,                   \* self.agents: agent id -> record
    agent_load,               \* self.agent_load: agent id -> load
    agent_order,              \* the keys of self.agents in the dict's order
    registry_returns,         \* what get_best_agent hands to the orchestrator
    \* ContextManager
    prompt_files,             \* the .md files of the prompt directory
    prompt_cache,             \* self.prompt_cache: entries, least recent first
    loading,                  \* a caller's load_prompt suspended in the file read
    modified_events,          \* files whose on_modified event is not handled yet
    changed_keys,             \* history: keys cached when their file was rewritten, not loaded since
    \* TaskOrchestrator
    _running,                 \* self._running
    executions,               \* the TaskExecution records, by execution id
    active_tasks,             \* self.active_tasks (its keys)
    task_history,             \* self.task_history (execution ids, in order)
    task_queue,               \* self.task_queue: the task_data waiting, oldest first
    processor,                \* _task_processor: the task_data it is working on
    queued,                   \* history: the ids queue_task returned, in call order
    dequeued,                 \* history: the ids of the task_data handed to execute_task
    \* TeamLeader
    initialized,              \* self.initialized
    metrics,                  \* self.metrics
    leader_active_tasks,      \* self.active_tasks: task id -> status
    calls                     \* the delegate_task calls: position and locals

rules_vars == <<current_phase, phase_history, complexity_budget,
                current_complexity_used, rules_agent_registry,
                rules_task_history>>

registry_vars == <<agents, agent_load, agent_order, registry_returns>>

context_vars == <<prompt_files, prompt_cache, loading, modified_events,
                  changed_keys>>

queue_vars == <<task_queue, processor, queued, dequeued>>

orchestrator_vars == <<_running, executions, active_tasks, task_history,
                       queue_vars>>

leader_vars == <<initialized, metrics, leader_active_tasks, calls>>

system_vars == <<registry_vars, context_vars, orchestrator_vars, leader_vars>>

vars == <<rules_vars, last_call, next_id, system_vars>>

----------------------------------------------------------------------------
\* Bounds of the model.

\* Task ids handed out in one run.
MaxTasks == 2

\* Largest complexity a caller submits (TaskSpec.complexity, "1-10").
MaxComplexity == 10

\* rules_config.get("complexity_budget", 25)
DefaultComplexityBudget == 25

\* Budgets a RulesEngine is configured with ("complexity_budget" of the
\* configuration): the value of the specification's scenarios.
Budgets == {10}

\* Task types callers submit: "validation" is allowed in four phases,
\* "research" and "coding" in one each, "web_search" in none.
TaskTypeInputs ==
    {"validation", "research", "coding", "web_search"}

\* Agent types callers name.
AgentTypeInputs == {"research", "backend"}

None == "None"

----------------------------------------------------------------------------
\* RulesEngine (core/rules_engine.py)

\* list(Phase): the members of the Phase enum in definition order.
Phase ==
    <<"initialization", "research", "planning", "context_preparation",
      "validation", "implementation", "verification", "testing",
      "user_value_validation", "documentation", "preparation">>

PhaseSet == {Phase[i] : i \in 1..Len(Phase)}

\* phase_order.index(phase), counted from 1.
PhaseIndex(phase) == CHOOSE i \in 1..Len(Phase) : Phase[i] = phase

\* _load_phase_configs: the default PhaseConfig of every phase.
PhaseConfig(allowed, criteria, max) ==
    [allowed_tasks |-> allowed, completion_criteria |-> criteria,
     max_complexity |-> max]

phase_configs ==
    [p \in PhaseSet |->
        CASE p = "initialization" ->
               PhaseConfig({"system_setup", "configuration", "validation"},
                           <<"team_leader_operational", "subsystems_initialized">>, 3)
          [] p = "research" ->
               PhaseConfig({"research", "analysis", "knowledge_synthesis"},
                           <<"research_completed", "findings_synthesized">>, 8)
          [] p = "planning" ->
               PhaseConfig({"architecture", "design", "planning"},
                           <<"implementation_plan_created", "architecture_approved">>, 7)
          [] p = "context_preparation" ->
               PhaseConfig({"context_assembly", "validation", "documentation"},
                           <<"context_prepared", "validation_passed">>, 5)
          [] p = "validation" ->
               PhaseConfig({"validation", "risk_assessment", "scope_check"},
                           <<"mock_risk_assessed", "scope_validated">>, 6)
          [] p = "implementation" ->
               PhaseConfig({"development", "coding", "implementation"},
                           <<"functional_implementation", "no_mocks">>, 10)
          [] p = "verification" ->
               PhaseConfig({"verification", "testing", "quality_check"},
                           <<"independent_verification", "features_match_plan">>, 8)
          [] p = "testing" ->
               PhaseConfig({"testing", "qa", "integration_testing"},
                           <<"comprehensive_testing", "no_mocks_detected">>, 9)
          [] p = "user_value_validation" ->
               PhaseConfig({"validation", "user_testing", "compliance_check"},
                           <<"value_delivered", "technical_compliance">>, 7)
          [] p = "documentation" ->
               PhaseConfig({"documentation", "guides", "api_docs"},
                           <<"documentation_created", "approved_features_only">>, 5)
          [] p = "preparation" ->
               PhaseConfig({"preparation", "setup", "configuration"},
                           <<"next_part_ready", "cleanup_completed">>, 3)]

\* TaskSpec: the fields the core reads.
TaskSpec(id, agent_type, task_type, complexity) ==
    [task_id |-> id, agent_type |-> agent_type, task_type |-> task_type,
     complexity |-> complexity]

NoTask == [task_id |-> 0, agent_type |-> None, task_type |-> None, complexity |-> 0]

\* _agent_available
_agent_available(agent_type) == agent_type \in rules_agent_registry

\* validate_scope with the budget check comparing the task's complexity alone,
\* the complexity already used forgotten.
validate_scope_budget_ignores_used(task_spec) ==
    LET phase_config == phase_configs[current_phase] IN
    IF task_spec.task_type \notin phase_config.allowed_tasks
        THEN "task_type_not_allowed"
    ELSE IF task_spec.complexity > complexity_budget
        THEN "exceeds_remaining_budget"
    ELSE IF task_spec.complexity > phase_config.max_complexity
        THEN "exceeds_phase_maximum"
    ELSE IF ~_agent_available(task_spec.agent_type)
        THEN "agent_not_available"
    ELSE "ok"

\* validate_scope without the check of the phase's allowed task types.
validate_scope_no_phase_check(task_spec) ==
    LET phase_config == phase_configs[current_phase] IN
    IF current_complexity_used + task_spec.complexity > complexity_budget
        THEN "exceeds_remaining_budget"
    ELSE IF task_spec.complexity > phase_config.max_complexity
        THEN "exceeds_phase_maximum"
    ELSE IF ~_agent_available(task_spec.agent_type)
        THEN "agent_not_available"
    ELSE "ok"

\* validate_scope with the budget check off by one (>= for >).
validate_scope_budget_off_by_one(task_spec) ==
    LET phase_config == phase_configs[current_phase] IN
    IF task_spec.task_type \notin phase_config.allowed_tasks
        THEN "task_type_not_allowed"
    ELSE IF current_complexity_used + task_spec.complexity >= complexity_budget
        THEN "exceeds_remaining_budget"
    ELSE IF task_spec.complexity > phase_config.max_complexity
        THEN "exceeds_phase_maximum"
    ELSE IF ~_agent_available(task_spec.agent_type)
        THEN "agent_not_available"
    ELSE "ok"

\* validate_scope with the phase maximum compared against the budget
\* instead of the phase's max_complexity.
validate_scope_wrong_phase_maximum(task_spec) ==
    LET phase_config == phase_configs[current_phase] IN
    IF task_spec.task_type \notin phase_config.allowed_tasks
        THEN "task_type_not_allowed"
    ELSE IF current_complexity_used + task_spec.complexity > complexity_budget
        THEN "exceeds_remaining_budget"
    ELSE IF task_spec.complexity > complexity_budget
        THEN "exceeds_phase_maximum"
    ELSE IF ~_agent_available(task_spec.agent_type)
        THEN "agent_not_available"
    ELSE "ok"

\* validate_scope: "ok" when it returns True, otherwise the check whose
\* ScopeViolationError it raises. The checks run in the order of the code.
validate_scope(task_spec) ==
    LET phase_config == phase_configs[current_phase] IN
    IF task_spec.task_type \notin phase_config.allowed_tasks
        THEN "task_type_not_allowed"
    ELSE IF current_complexity_used + task_spec.complexity > complexity_budget
        THEN "exceeds_remaining_budget"
    ELSE IF task_spec.complexity > phase_config.max_complexity
        THEN "exceeds_phase_maximum"
    ELSE IF ~_agent_available(task_spec.agent_type)
        THEN "agent_not_available"
    ELSE "ok"

\* _get_next_phase letting a phase be skipped.
_get_next_phase_skips(phase) ==
    IF PhaseIndex(phase) < Len(Phase) - 1 THEN Phase[PhaseIndex(phase) + 2] ELSE None

\* _get_next_phase wrapping round to the first phase after the last.
_get_next_phase_wraps(phase) == Phase[(PhaseIndex(phase) % Len(Phase)) + 1]

\* _get_next_phase
_get_next_phase(phase) ==
    IF PhaseIndex(phase) < Len(Phase) THEN Phase[PhaseIndex(phase) + 1] ELSE None

\* _check_requirement: returns True for every requirement.
_check_requirement(requirement) == TRUE

\* can_progress_to_phase
can_progress_to_phase(target_phase) ==
    /\ target_phase = _get_next_phase(current_phase)
    /\ LET criteria == phase_configs[current_phase].completion_criteria IN
       \A i \in 1..Len(criteria) : _check_requirement(criteria[i])

\* register_task_execution: the new value of current_complexity_used.
register_complexity(task_spec) == current_complexity_used + task_spec.complexity

Call(op, arg, result) == [op |-> op, arg |-> arg, result |-> result]

----------------------------------------------------------------------------
\* AgentRegistry (core/team_leader.py)

\* The "agents" section of the configuration, in its order: two of the four
\* built-in agents. research_agent has no max_load configured and gets the
\* default; the configuration limits backend_coder to one task at a time.
AgentConfigs ==
    <<[agent_id |-> "research_agent", agent_type |-> "research", max_complexity |-> 8],
      [agent_id |-> "backend_coder", agent_type |-> "backend", max_complexity |-> 10,
       max_load |-> 1]>>

\* agent_config.get("max_load", 5)
DefaultMaxLoad == 5

\* register_agent storing a record that is not active.
RegisteredAgent_not_active(agent_config) ==
    [agent_type |-> agent_config.agent_type, status |-> "inactive",
     current_load |-> 0, max_load |-> DefaultMaxLoad,
     max_complexity |-> agent_config.max_complexity]

\* register_agent: the record stored for an agent.
RegisteredAgent(agent_config) ==
    [agent_type |-> agent_config.agent_type, status |-> "active",
     current_load |-> 0,
     max_load |-> IF "max_load" \in DOMAIN agent_config
                      THEN agent_config.max_load ELSE DefaultMaxLoad,
     max_complexity |-> agent_config.max_complexity]

\* The filter of get_best_agent without the test of the load.
Candidates_ignoring_load(agent_type, task_type, complexity) ==
    {a \in DOMAIN agents :
        /\ agents[a].agent_type = agent_type
        /\ agents[a].status = "active"
        /\ complexity <= agents[a].max_complexity}

\* get_best_agent: the agents passing the filter.
Candidates(agent_type, task_type, complexity) ==
    {a \in DOMAIN agents :
        /\ agents[a].agent_type = agent_type
        /\ agents[a].status = "active"
        /\ agents[a].current_load < agents[a].max_load
        /\ complexity <= agents[a].max_complexity}

\* get_best_agent choosing an agent of highest load.
get_best_agent_highest_load(agent_type, task_type, complexity) ==
    LET candidates == Candidates(agent_type, task_type, complexity)
    IN  IF candidates = {} THEN None
        ELSE CHOOSE b \in candidates :
                \A a \in candidates : agents[a].current_load <= agents[b].current_load

\* get_best_agent falling back to the first registered agent.
get_best_agent_never_none(agent_type, task_type, complexity) ==
    LET candidates == Candidates(agent_type, task_type, complexity)
    IN  IF candidates = {} THEN agent_order[1]
        ELSE CHOOSE b \in candidates :
                \A a \in candidates : agents[b].current_load <= agents[a].current_load

\* get_best_agent: the agent chosen, min() keeping the first of the agents
\* of lowest load in the dict's order; None without a candidate.
get_best_agent(agent_type, task_type, complexity) ==
    LET candidates == Candidates(agent_type, task_type, complexity)
        lowest(i) == /\ agent_order[i] \in candidates
                     /\ \A a \in candidates :
                            agents[agent_order[i]].current_load
                                <= agents[a].current_load
    IN  IF candidates = {} THEN None
        ELSE agent_order[CHOOSE i \in 1..Len(agent_order) :
                            lowest(i) /\ \A j \in 1..(i - 1) : ~lowest(j)]

\* get_best_agent: the load of the chosen agent raised by one.
LoadAcquired(load, best) ==
    IF best = None THEN load ELSE [load EXCEPT ![best] = @ + 1]

AgentsAcquired(best) ==
    IF best = None THEN agents
    ELSE [agents EXCEPT ![best].current_load = agent_load[best] + 1]

----------------------------------------------------------------------------
\* ContextManager (core/context_manager.py)

\* str.split("_") on the names the model uses.
Split(name) ==
    CASE name = "web_search" -> <<"web", "search">>
      [] name = "codebase_analyzer" -> <<"codebase", "analyzer">>
      [] OTHER -> <<name>>

\* The prompt directory as _initialize_default_prompts fills an empty one:
\* file stems (split at "_") in the order written, none of the generated
\* texts containing the substring "role".
DefaultPromptFiles ==
    <<[stem |-> <<"team", "leader">>, content |-> "lacks_role"],
      [stem |-> <<"research", "agent">>, content |-> "lacks_role"],
      [stem |-> <<"codebase", "analyzer">>, content |-> "lacks_role"],
      [stem |-> <<"frontend", "coder">>, content |-> "lacks_role"],
      [stem |-> <<"backend", "coder">>, content |-> "lacks_role"]>>

\* A prompt directory supplied by the user: research.md and backend.md,
\* both passing the validation.
CustomPromptFiles ==
    <<[stem |-> <<"research">>, content |-> "valid"],
      [stem |-> <<"backend">>, content |-> "valid"]>>

PromptDirectories == {DefaultPromptFiles, CustomPromptFiles}

FileExists(stem) == \E i \in 1..Len(prompt_files) : prompt_files[i].stem = stem

FileContent(stem) ==
    prompt_files[CHOOSE i \in 1..Len(prompt_files) : prompt_files[i].stem = stem].content

\* _get_prompt_file: the stem of the file resolved, None when neither
\* {agent}_{task}.md nor {agent}.md exists (ConfigurationError).
_get_prompt_file(agent_type, task_type) ==
    LET filename == IF task_type # None
                        THEN Split(agent_type) \o Split(task_type)
                        ELSE Split(agent_type)
    IN  IF FileExists(filename) THEN filename
        ELSE IF FileExists(Split(agent_type)) THEN Split(agent_type)
        ELSE None

\* _get_cache_key
_get_cache_key(agent_type, task_type) == <<agent_type, task_type>>

\* _read_and_validate_prompt: whether the content read passes. "valid" and
\* "valid_v2" are two texts holding both required sections.
ContentValid(content) == content \in {"valid", "valid_v2"}

\* _calculate_checksum: the SHA-256 digest of the file's bytes; different
\* contents have different digests.
_calculate_checksum(file) == <<"sha256", FileContent(file)>>

\* _validate_checksum failing for every checksum.
_validate_checksum_never(file, expected_checksum) == FALSE

\* _validate_checksum
_validate_checksum(file, expected_checksum) ==
    /\ expected_checksum # <<>>
    /\ _calculate_checksum(file) = expected_checksum

\* SystemPrompt: the cache entry of a key.
SystemPrompt(cache_key, content, checksum) ==
    [key |-> cache_key, content |-> content, checksum |-> checksum]

InCache(cache, cache_key) == \E i \in 1..Len(cache) : cache[i].key = cache_key

CacheEntry(cache, cache_key) ==
    cache[CHOOSE i \in 1..Len(cache) : cache[i].key = cache_key]

\* load_prompt: the cached entry is served, its checksum being the file's.
CacheHit(cache, file, cache_key) ==
    /\ InCache(cache, cache_key)
    /\ _validate_checksum(file, CacheEntry(cache, cache_key).checksum)

Without(cache, cache_key) == SelectSeq(cache, LAMBDA e : e.key # cache_key)

\* self.max_cache_size
max_cache_size == 1000

\* _update_cache, and move_to_end of a cache hit: the key becomes the most
\* recent entry; the oldest entries go while the cache is over its size.
\* A cache that is never reduced to its size limit.
Evict_never(cache) == cache

RECURSIVE Evict(_)
Evict(cache) == IF Len(cache) > max_cache_size THEN Evict(Tail(cache)) ELSE cache

_update_cache(cache, cache_key, system_prompt) ==
    Evict(Append(Without(cache, cache_key), system_prompt))

move_to_end(cache, cache_key) ==
    Append(Without(cache, cache_key), CacheEntry(cache, cache_key))

\* load_prompt past the cache check: the file read, validated and cached.
Loaded(cache, file, cache_key) ==
    _update_cache(cache, cache_key,
                  SystemPrompt(cache_key, FileContent(file), _calculate_checksum(file)))

\* A load_prompt call suspended in _read_and_validate_prompt: its arguments
\* and the text the read returns.
LoadCall(args, content) == [args |-> args, content |-> content]

NoLoad == LoadCall(<<>>, None)

\* What a load_prompt call gave its caller: the content returned, whether
\* the call read the prompt file, and the exception raised instead.
LoadResult(content, disk_read, raised) ==
    [content |-> content, disk_read |-> disk_read, raised |-> raised]

\* _load_all_prompts, one turn of its loop: file i of the directory is
\* loaded as (parts[0], parts[1] or None) and is left out when load_prompt
\* raises.
LoadOne(cache, i) ==
    LET parts == prompt_files[i].stem
        agent_type == parts[1]
        task_type == IF Len(parts) > 1 THEN parts[2] ELSE None
        file == _get_prompt_file(agent_type, task_type)
        cache_key == _get_cache_key(agent_type, task_type)
    IN  IF file = None THEN cache
        ELSE IF CacheHit(cache, file, cache_key)
            THEN move_to_end(cache, cache_key)
        ELSE IF ContentValid(FileContent(file))
            THEN Loaded(cache, file, cache_key)
        ELSE cache

\* The turns of the loop for the files at positions lo..hi, in order. The
\* range is halved, and the cache after the first half is computed before
\* the second half starts, to keep the evaluation shallow.
RECURSIVE LoadRange(_, _, _)
LoadRange(cache, lo, hi) ==
    IF lo > hi THEN cache
    ELSE IF lo = hi THEN LoadOne(cache, lo)
    ELSE LET mid == (lo + hi) \div 2
             first_half == LoadRange(cache, lo, mid)
         IN  IF Len(first_half) >= 0
                 THEN LoadRange(first_half, mid + 1, hi)
                 ELSE first_half

\* _load_all_prompts: the cache after loading the files of the directory
\* from position i on.
LoadAll(cache, i) == LoadRange(cache, i, Len(prompt_files))

----------------------------------------------------------------------------
\* TaskOrchestrator (core/task_orchestrator.py)

\* TaskStatus
TerminalStatuses == {"completed", "failed", "cancelled", "timeout"}

TaskStatus == {"pending", "delegated", "in_progress"} \cup TerminalStatuses

\* TaskExecution: status, agent_id, whether completed_at is set, whether the
\* clock has passed timeout_at, the statuses assigned to the record so far,
\* in order, and execution_metadata["error_type"].
TaskExecution(status, agent_id, completed_at, deadline_passed, trail, error_type) ==
    [status |-> status, agent_id |-> agent_id, completed_at |-> completed_at,
     deadline_passed |-> deadline_passed, trail |-> trail,
     error_type |-> error_type]

\* No record created yet under this id.
NoExecution == TaskExecution("none", None, FALSE, FALSE, <<>>, None)

\* execution.status = status
SetStatus(execution, status) ==
    [execution EXCEPT !.status = status, !.trail = Append(@, status)]

\* _create_task_execution
_create_task_execution ==
    TaskExecution("pending", None, FALSE, FALSE, <<"pending">>, None)

\* _start_task_execution
_start_task_execution(execution) == SetStatus(execution, "in_progress")

\* _complete_task_execution
_complete_task_execution(execution) ==
    [SetStatus(execution, "completed") EXCEPT !.completed_at = TRUE]

\* _fail_task_execution
_fail_task_execution(execution, exc_type) ==
    [SetStatus(execution, "failed") EXCEPT !.completed_at = TRUE,
                                           !.error_type = exc_type]

\* _execute_with_agent: what it raises when wait_for gives the agent call up
\* (timed_out), and when the agent call raises an exception of its own.
_execute_with_agent_raises(timed_out) ==
    IF timed_out THEN "TimeoutError" ELSE "AgentError"

\* execute_task, its except branch: what it raises for an exception of
\* _execute_with_agent.
execute_task_raises(exc_type) == "TaskExecutionError"

\* What _task_processor is doing: waiting in task_queue.get() ("idle"),
\* awaiting execute_task for a task_data ("executing", with the id
\* execute_task gave the execution) or awaiting its callback ("callback").
Processor(pc, task_data, execution_id) ==
    [pc |-> pc, task_data |-> task_data, execution_id |-> execution_id]

\* queue_task: the task_data put on the queue.
TaskData(task_id, task_spec, callback) ==
    [task_id |-> task_id, task_spec |-> task_spec, callback |-> callback]

NoTaskData == TaskData(0, NoTask, FALSE)

IdleProcessor == Processor("idle", NoTaskData, 0)

\* cancel_task without the completion time.
CancelledExecution_without_completed_at(execution) == SetStatus(execution, "cancelled")

\* cancel_task: the record of a cancelled task.
CancelledExecution(execution) ==
    [SetStatus(execution, "cancelled") EXCEPT !.completed_at = TRUE]

\* shutdown: the status of every active task set to CANCELLED.
ShutdownExecution(execution) == SetStatus(execution, "cancelled")

----------------------------------------------------------------------------
\* TeamLeader (core/team_leader.py)

\* delegate_task calls of one run.
MaxCalls == 2

CallIds == 1..MaxCalls

\* TaskMetrics()
TaskMetrics ==
    [total_tasks |-> 0, completed_tasks |-> 0, failed_tasks |-> 0,
     complexity_budget_used |-> 0, error_count |-> 0]

\* A delegate_task call: where it stands, its task_spec, and how it ended.
DelegateCall(pc, task_spec, outcome) ==
    [pc |-> pc, task_spec |-> task_spec, outcome |-> outcome]

NoCall == DelegateCall("idle", NoTask, None)

InFlight(c) == calls[c].pc \in {"read_prompt", "agent_call"}

\* The state after TeamLeader.__init__, but for the RulesEngine, the prompt
\* directory and the kind of registry.
InitSystem ==
    /\ agents = <<>>
    /\ agent_load = <<>>
    /\ agent_order = <<>>
    /\ prompt_cache = <<>>
    /\ loading = NoLoad
    /\ modified_events = {}
    /\ changed_keys = {}
    /\ _running = FALSE
    /\ executions = [c \in CallIds |-> NoExecution]
    /\ active_tasks = {}
    /\ task_history = <<>>
    /\ task_queue = <<>>
    /\ processor = IdleProcessor
    /\ queued = <<>>
    /\ dequeued = <<>>
    /\ initialized = FALSE
    /\ metrics = TaskMetrics
    /\ leader_active_tasks = [c \in CallIds |-> None]
    /\ calls = [c \in CallIds |-> NoCall]

----------------------------------------------------------------------------
\* One caller using the RulesEngine: tasks are submitted one after another,
\* and a task is registered only right after validate_scope accepted it.

\* RulesEngine.__init__
InitRulesEngine ==
    /\ current_phase = Phase[1]
    /\ phase_history = <<>>
    /\ complexity_budget \in Budgets
    /\ current_complexity_used = 0
    /\ rules_agent_registry = {}
    /\ rules_task_history = <<>>
    /\ last_call = Call("init", NoTask, None)
    /\ next_id = 0

InitRules ==
    /\ InitRulesEngine
    /\ InitSystem
    /\ prompt_files = CustomPromptFiles
    /\ registry_returns = "agent"

\* validate_scope(task_spec) called by the caller.
ValidateScope ==
    /\ next_id < MaxTasks
    /\ \E agent_type \in AgentTypeInputs, task_type \in TaskTypeInputs,
          complexity \in 1..MaxComplexity :
        LET task_spec == TaskSpec(next_id + 1, agent_type, task_type, complexity) IN
        last_call' = Call("validate_scope", task_spec, validate_scope(task_spec))
    /\ UNCHANGED <<rules_vars, next_id, system_vars>>

\* The task validate_scope has just accepted.
Accepted == last_call.op = "validate_scope" /\ last_call.result = "ok"

\* register_task_execution(task_spec, result) for the accepted task.
RegisterTaskExecution ==
    /\ Accepted
    /\ current_complexity_used' = register_complexity(last_call.arg)
    /\ rules_task_history' = Append(rules_task_history, last_call.arg.task_id)
    /\ last_call' = Call("register_task_execution", last_call.arg, None)
    /\ next_id' = next_id + 1
    /\ UNCHANGED <<current_phase, phase_history, complexity_budget,
                   rules_agent_registry, system_vars>>

\* progress_to_phase renewing the budget with every phase change.
ProgressToPhase_renewing_budget ==
    /\ \E target_phase \in PhaseSet :
        IF can_progress_to_phase(target_phase)
            THEN /\ phase_history' = Append(phase_history, current_phase)
                 /\ current_phase' = target_phase
                 /\ current_complexity_used' = 0
                 /\ rules_task_history' = <<>>
                 /\ last_call' = Call("progress_to_phase", target_phase, TRUE)
            ELSE /\ last_call' = Call("progress_to_phase", target_phase, FALSE)
                 /\ UNCHANGED <<current_phase, phase_history,
                                current_complexity_used, rules_task_history>>
    /\ UNCHANGED <<complexity_budget, rules_agent_registry, next_id, system_vars>>

\* progress_to_phase appending the phase entered instead of the phase left.
ProgressToPhase_records_target ==
    /\ \E target_phase \in PhaseSet :
        IF can_progress_to_phase(target_phase)
            THEN /\ phase_history' = Append(phase_history, target_phase)
                 /\ current_phase' = target_phase
                 /\ last_call' = Call("progress_to_phase", target_phase, TRUE)
            ELSE /\ last_call' = Call("progress_to_phase", target_phase, FALSE)
                 /\ UNCHANGED <<current_phase, phase_history>>
    /\ UNCHANGED <<complexity_budget, current_complexity_used,
                   rules_agent_registry, rules_task_history, next_id, system_vars>>

\* progress_to_phase(target_phase)
ProgressToPhase ==
    /\ \E target_phase \in PhaseSet :
        IF can_progress_to_phase(target_phase)
            THEN /\ phase_history' = Append(phase_history, current_phase)
                 /\ current_phase' = target_phase
                 /\ last_call' = Call("progress_to_phase", target_phase, TRUE)
            ELSE /\ last_call' = Call("progress_to_phase", target_phase, FALSE)
                 /\ UNCHANGED <<current_phase, phase_history>>
    /\ UNCHANGED <<complexity_budget, current_complexity_used,
                   rules_agent_registry, rules_task_history, next_id, system_vars>>

\* reset_complexity_budget()
ResetComplexityBudget ==
    /\ current_complexity_used' = 0
    /\ rules_task_history' = <<>>
    /\ last_call' = Call("reset_complexity_budget", None, None)
    /\ UNCHANGED <<current_phase, phase_history, complexity_budget,
                   rules_agent_registry, next_id, system_vars>>

\* add_agent_capability(agent_type, task_types)
AddAgentCapability ==
    /\ \E agent_type \in AgentTypeInputs :
        /\ rules_agent_registry' = rules_agent_registry \cup {agent_type}
        /\ last_call' = Call("add_agent_capability", agent_type, None)
    /\ UNCHANGED <<current_phase, phase_history, complexity_budget,
                   current_complexity_used, rules_task_history, next_id,
                   system_vars>>

NextRules ==
    \/ ValidateScope
    \/ RegisterTaskExecution
    \/ ProgressToPhase
    \/ ResetComplexityBudget
    \/ AddAgentCapability

SpecRules == InitRules /\ [][NextRules]_vars

----------------------------------------------------------------------------
\* An AgentRegistry used directly: register_agent, get_best_agent and
\* release_agent called one after the other.

\* Agent ids, configurations and requests callers pass.
RegistryAgentIds == {"backend_1", "backend_2"}

RegistryAgentConfigs ==
    {[agent_type |-> t, max_complexity |-> m] :
        t \in {"backend", "research"}, m \in {5, 10}}
    \cup {[agent_type |-> t, max_complexity |-> m, max_load |-> 2] :
        t \in {"backend", "research"}, m \in {5, 10}}

RequestComplexities == {3, 7}

InitRegistry ==
    /\ InitRulesEngine
    /\ InitSystem
    /\ prompt_files = CustomPromptFiles
    /\ registry_returns = "dict"

\* register_agent(agent_id, agent_config)
RegisterAgentCall(agent_id, agent_config) ==
    /\ agents' = [a \in DOMAIN agents \cup {agent_id} |->
                    IF a = agent_id THEN RegisteredAgent(agent_config) ELSE agents[a]]
    /\ agent_load' = [a \in DOMAIN agent_load \cup {agent_id} |->
                        IF a = agent_id THEN 0 ELSE agent_load[a]]
    /\ agent_order' = IF agent_id \in DOMAIN agents THEN agent_order
                                                     ELSE Append(agent_order, agent_id)
    /\ last_call' = Call("register_agent", <<agent_id, agent_config>>, TRUE)
    /\ UNCHANGED <<rules_vars, next_id, registry_returns, context_vars,
                   orchestrator_vars, leader_vars>>

RegisterAgent ==
    \E agent_id \in RegistryAgentIds, agent_config \in RegistryAgentConfigs :
        RegisterAgentCall(agent_id, agent_config)

\* get_best_agent(agent_type, task_type, complexity)
GetBestAgentCall(agent_type, task_type, complexity) ==
    LET best == get_best_agent(agent_type, task_type, complexity)
    IN  /\ agent_load' = LoadAcquired(agent_load, best)
        /\ agents' = AgentsAcquired(best)
        /\ last_call' = Call("get_best_agent", <<agent_type, task_type, complexity>>, best)
        /\ UNCHANGED <<rules_vars, next_id, agent_order, registry_returns,
                       context_vars, orchestrator_vars, leader_vars>>

GetBestAgent ==
    \E agent_type \in {"backend", "research"}, complexity \in RequestComplexities :
        GetBestAgentCall(agent_type, "api_development", complexity)

\* release_agent(agent_id)
ReleaseAgentCall(agent_id) ==
    /\ IF agent_id \in DOMAIN agent_load
          THEN LET load == IF agent_load[agent_id] - 1 > 0
                               THEN agent_load[agent_id] - 1 ELSE 0
               IN  /\ agent_load' = [agent_load EXCEPT ![agent_id] = load]
                   /\ agents' = [agents EXCEPT ![agent_id].current_load = load]
          ELSE UNCHANGED <<agents, agent_load>>
    /\ last_call' = Call("release_agent", agent_id, None)
    /\ UNCHANGED <<rules_vars, next_id, agent_order, registry_returns,
                   context_vars, orchestrator_vars, leader_vars>>

ReleaseAgent == \E agent_id \in RegistryAgentIds : ReleaseAgentCall(agent_id)

NextRegistry ==
    \/ RegisterAgent
    \/ GetBestAgent
    \/ ReleaseAgent

SpecRegistry == InitRegistry /\ [][NextRegistry]_vars

----------------------------------------------------------------------------
\* A ContextManager used directly by one caller, whose load_prompt calls
\* follow one another, while the prompt file is rewritten on disk and the
\* watcher reloads it. A load_prompt that misses the cache is suspended in
\* the file read; the checksum is computed from the file when it resumes.

\* The prompt directory: research.md.
ContextPromptFiles == <<[stem |-> <<"research">>, content |-> "valid"]>>

\* The texts written to a prompt file.
PromptContents == {"valid", "valid_v2", "lacks_role"}

\* Arguments callers pass to load_prompt: ("research", None) resolves to
\* research.md, ("research", "research") falls back to it, and no file
\* exists for "backend".
LoadAgentTypes == {"research", "backend"}

LoadTaskTypes == {None, "research"}

\* The cached keys whose prompt file is the given file: a key holds the
\* agent_type and the task_type it was cached for.
CachedKeysOf(cache, file) ==
    {cache_key \in {cache[i].key : i \in 1..Len(cache)} :
        _get_prompt_file(cache_key[1], cache_key[2]) = file}

InitContext ==
    /\ InitRulesEngine
    /\ InitSystem
    /\ prompt_files = ContextPromptFiles
    /\ registry_returns = "dict"

\* load_prompt(agent_type, task_type, force_reload) up to its return or its
\* suspension in the file read.
LoadPromptCall(agent_type, task_type, force_reload) ==
    LET file == _get_prompt_file(agent_type, task_type)
        cache_key == _get_cache_key(agent_type, task_type)
        args == <<agent_type, task_type, force_reload>>
    IN  /\ loading = NoLoad
        /\ IF file = None
              THEN /\ last_call' = Call("load_prompt", args,
                                        LoadResult(None, FALSE, "ConfigurationError"))
                   /\ UNCHANGED <<prompt_cache, loading, changed_keys>>
           ELSE IF ~force_reload /\ CacheHit(prompt_cache, file, cache_key)
              THEN /\ prompt_cache' = move_to_end(prompt_cache, cache_key)
                   /\ last_call' = Call("load_prompt", args,
                            LoadResult(CacheEntry(prompt_cache, cache_key).content,
                                       FALSE, None))
                   /\ changed_keys' = IF file \in modified_events
                                          THEN changed_keys
                                          ELSE changed_keys \ {cache_key}
                   /\ UNCHANGED loading
           ELSE /\ loading' = LoadCall(args, FileContent(file))
                /\ UNCHANGED <<prompt_cache, last_call, changed_keys>>
        /\ UNCHANGED <<rules_vars, next_id, registry_vars, prompt_files,
                       modified_events, orchestrator_vars, leader_vars>>

LoadPrompt ==
    \E agent_type \in LoadAgentTypes, task_type \in LoadTaskTypes,
       force_reload \in BOOLEAN :
        LoadPromptCall(agent_type, task_type, force_reload)

\* load_prompt resumed after the read: the text validated, the checksum
\* computed from the file as it is now, the cache updated.
LoadPromptResume ==
    /\ loading # NoLoad
    /\ LET file == _get_prompt_file(loading.args[1], loading.args[2])
           cache_key == _get_cache_key(loading.args[1], loading.args[2])
       IN  /\ IF ~ContentValid(loading.content)
                  THEN /\ last_call' = Call("load_prompt", loading.args,
                                            LoadResult(None, TRUE, "ValidationError"))
                       /\ UNCHANGED prompt_cache
                  ELSE /\ prompt_cache' =
                           _update_cache(prompt_cache, cache_key,
                               SystemPrompt(cache_key, loading.content,
                                            _calculate_checksum(file)))
                       /\ last_call' = Call("load_prompt", loading.args,
                                            LoadResult(loading.content, TRUE, None))
           /\ changed_keys' =
                IF /\ loading.content = FileContent(file)
                   /\ loading.args[3] \/ file \notin modified_events
                    THEN changed_keys \ {cache_key}
                    ELSE changed_keys
    /\ loading' = NoLoad
    /\ UNCHANGED <<rules_vars, next_id, registry_vars, prompt_files,
                   modified_events, orchestrator_vars, leader_vars>>

\* The prompt file rewritten on disk; the watcher is notified.
ModifyPromptFile ==
    /\ \E i \in 1..Len(prompt_files), content \in PromptContents :
        /\ content # prompt_files[i].content
        /\ prompt_files' = [prompt_files EXCEPT ![i].content = content]
        /\ modified_events' = modified_events \cup {prompt_files[i].stem}
        /\ changed_keys' = changed_keys \cup
                CachedKeysOf(prompt_cache, prompt_files[i].stem)
        /\ last_call' = Call("modify_file", prompt_files[i].stem, content)
    /\ UNCHANGED <<rules_vars, next_id, registry_vars, prompt_cache, loading,
                   orchestrator_vars, leader_vars>>

\* _reload_prompt_file for a modified file: the key derived from the file
\* name is dropped from the cache and loaded with force_reload; an exception
\* of load_prompt is swallowed.
ReloadPromptFile ==
    /\ \E parts \in modified_events :
        LET agent_type == parts[1]
            task_type == IF Len(parts) > 1 THEN parts[2] ELSE None
            cache_key == _get_cache_key(agent_type, task_type)
            file == _get_prompt_file(agent_type, task_type)
            dropped == Without(prompt_cache, cache_key)
        IN  /\ prompt_cache' =
                    IF file # None /\ ContentValid(FileContent(file))
                        THEN Loaded(dropped, file, cache_key)
                        ELSE dropped
            /\ modified_events' = modified_events \ {parts}
            /\ last_call' = Call("_reload_prompt_file", parts, None)
    /\ UNCHANGED <<rules_vars, next_id, registry_vars, prompt_files, loading,
                   changed_keys, orchestrator_vars, leader_vars>>

NextContext ==
    \/ LoadPrompt
    \/ LoadPromptResume
    \/ ModifyPromptFile
    \/ ReloadPromptFile

SpecContext == InitContext /\ [][NextContext]_vars

----------------------------------------------------------------------------
\* A ContextManager over a prompt directory holding codebase_analyzer.md,
\* the prompt of the agent type "codebase_analyzer": callers load it, the
\* file is rewritten and the watcher reloads it.

WatchedPromptFiles ==
    <<[stem |-> <<"codebase", "analyzer">>, content |-> "valid"]>>

InitWatcher ==
    /\ InitRulesEngine
    /\ InitSystem
    /\ prompt_files = WatchedPromptFiles
    /\ registry_returns = "dict"

LoadWatchedPrompt ==
    \E force_reload \in BOOLEAN :
        LoadPromptCall("codebase_analyzer", None, force_reload)

NextWatcher ==
    \/ LoadWatchedPrompt
    \/ LoadPromptResume
    \/ ModifyPromptFile
    \/ ReloadPromptFile

SpecWatcher == InitWatcher /\ [][NextWatcher]_vars

----------------------------------------------------------------------------
\* A ContextManager over a prompt directory holding one file more than the
\* cache takes: initialize() loads every file, then callers load the
\* prompts of a few agent types, from the cache or from the file.

\* The files of the directory: 1.md, 2.md, ... in the order glob yields.
CacheFileCount == max_cache_size + 1

CachePromptFiles ==
    [i \in 1..CacheFileCount |-> [stem |-> <<ToString(i)>>, content |-> "valid"]]

\* Agent types whose prompt callers load.
CacheAgentTypes == {"1", "2", "3"}

InitCache ==
    /\ InitRulesEngine
    /\ InitSystem
    /\ prompt_files = CachePromptFiles
    /\ registry_returns = "dict"

\* ContextManager.initialize, awaited before the manager is used:
\* _load_all_prompts.
InitializeContext ==
    /\ last_call.op = "init"
    /\ prompt_cache' = LoadAll(prompt_cache, 1)
    /\ last_call' = Call("initialize", None, None)
    /\ UNCHANGED <<rules_vars, next_id, registry_vars, prompt_files, loading,
                   modified_events, changed_keys, orchestrator_vars,
                   leader_vars>>

LoadCachedPrompt ==
    /\ last_call.op # "init"
    /\ \E agent_type \in CacheAgentTypes, force_reload \in BOOLEAN :
          LoadPromptCall(agent_type, None, force_reload)

NextCache ==
    \/ InitializeContext
    \/ LoadCachedPrompt
    \/ LoadPromptResume

SpecCache == InitCache /\ [][NextCache]_vars

----------------------------------------------------------------------------
\* A ContextManager created over an empty prompt directory, which it fills
\* with the default prompts: initialize(), then callers load the prompts of
\* the agent types of the default configuration.

\* The agent_type of every agent of the default configuration.
DefaultAgentTypes == {"research", "codebase_analyzer", "frontend", "backend"}

\* Task types callers pass along.
DefaultTaskTypes == {None, "web_search", "research"}

InitDefaults ==
    /\ InitRulesEngine
    /\ InitSystem
    /\ prompt_files = DefaultPromptFiles
    /\ registry_returns = "dict"

LoadDefaultPrompt ==
    /\ last_call.op # "init"
    /\ \E agent_type \in DefaultAgentTypes, task_type \in DefaultTaskTypes,
          force_reload \in BOOLEAN :
            LoadPromptCall(agent_type, task_type, force_reload)

NextDefaults ==
    \/ InitializeContext
    \/ LoadDefaultPrompt
    \/ LoadPromptResume

SpecDefaults == InitDefaults /\ [][NextDefaults]_vars

----------------------------------------------------------------------------
\* A TeamLeader: delegate_task calls interleave at their suspension points
\* (the prompt file read of a cache miss, the agent call) with one another,
\* with cancel_task, the timeout sweep, progress_to_phase and shutdown.

\* Phase names callers pass to TeamLeader.progress_to_phase; "exploration"
\* is no member of Phase.
TargetPhaseInputs == {"research", "exploration"}

\* Complexities callers pass to delegate_task: two that fit the budget one
\* by one and exceed it together.
DelegateComplexities == {5, 6}

\* TaskResult as _validate_result reads it: the length of the content
\* after strip(), the confidence score in hundredths, and whether the text
\* contains one of the mock indicators.
TaskResult(content_length, confidence_score, has_mock_indicator) ==
    [content_length |-> content_length, confidence_score |-> confidence_score,
     has_mock_indicator |-> has_mock_indicator]

\* len(result.content.strip()) < 10
MinContentLength == 10

\* result.confidence_score < 0.3, in hundredths
ConfidenceFloor == 30

\* _validate_result accepting a result whatever its confidence score.
_validate_result_ignores_confidence(result) ==
    /\ ~(result.content_length < MinContentLength)
    /\ ~result.has_mock_indicator

\* _validate_result: TRUE when it returns, FALSE when it raises
\* TaskExecutionError.
_validate_result(result) ==
    /\ ~(result.content_length < MinContentLength)
    /\ ~(result.confidence_score < ConfidenceFloor)
    /\ ~result.has_mock_indicator

\* Results agents return: a good one, the two boundary cases that pass,
\* and one for each reason of rejection.
ResultInputs ==
    {TaskResult(20, 90, FALSE), TaskResult(10, 90, FALSE),
     TaskResult(20, 30, FALSE), TaskResult(9, 90, FALSE),
     TaskResult(0, 90, FALSE), TaskResult(20, 29, FALSE),
     TaskResult(20, 90, TRUE)}

\* delegate_task, step 1: validate_scope raising ScopeViolationError ends
\* the call.
ScopeRejected_never(task_spec) == FALSE

ScopeRejected(task_spec) == validate_scope(task_spec) # "ok"

\* delegate_task, its except branch: what it raises for an exception of
\* its try block.
delegate_task_raises(exc_type) == "TaskExecutionError"

Init ==
    /\ InitRulesEngine
    /\ InitSystem
    /\ prompt_files \in PromptDirectories
    /\ registry_returns \in {"dict", "agent"}

\* TeamLeader.initialize. The TeamLeader of the model is initialized once.
Initialize ==
    /\ ~initialized
    /\ DOMAIN agents = {}
    /\ LET ids == {AgentConfigs[i].agent_id : i \in 1..Len(AgentConfigs)}
           config(a) == AgentConfigs[CHOOSE i \in 1..Len(AgentConfigs) :
                                        AgentConfigs[i].agent_id = a]
       IN  /\ agents' = [a \in ids |-> RegisteredAgent(config(a))]
           /\ agent_load' = [a \in ids |-> 0]
           /\ agent_order' = [i \in 1..Len(AgentConfigs) |-> AgentConfigs[i].agent_id]
    /\ rules_agent_registry' = rules_agent_registry \cup
            {AgentConfigs[i].agent_type : i \in 1..Len(AgentConfigs)}
    /\ prompt_cache' = LoadAll(prompt_cache, 1)
    /\ _running' = TRUE
    /\ initialized' = TRUE
    /\ UNCHANGED queue_vars
    /\ UNCHANGED <<current_phase, phase_history, complexity_budget,
                   current_complexity_used, rules_task_history, last_call,
                   next_id, registry_returns, prompt_files, loading,
                   modified_events, changed_keys, executions,
                   active_tasks, task_history, metrics, leader_active_tasks,
                   calls>>

\* delegate_task, its except branch: the counters, the entry left in
\* self.active_tasks with status "failed", TaskExecutionError raised.
FailDelegation(c, cause, m) ==
    /\ metrics' = [m EXCEPT !.error_count = @ + 1, !.failed_tasks = @ + 1]
    /\ leader_active_tasks' = [leader_active_tasks EXCEPT ![c] = "failed"]
    /\ calls' = [calls EXCEPT ![c] = DelegateCall("done", NoTask, cause)]

\* delegate_task from step 5 to the agent call: the budget counted in the
\* metrics, then execute_task creating the record, selecting the agent and
\* starting the execution. AgentUnavailableError and the AttributeError of
\* agent.agent_id on a dict are raised before the try of execute_task.
Dispatch(c, task_spec) ==
    LET best == get_best_agent(task_spec.agent_type, task_spec.task_type,
                               task_spec.complexity)
        m == [metrics EXCEPT !.complexity_budget_used = @ + task_spec.complexity]
    IN  /\ agent_load' = LoadAcquired(agent_load, best)
        /\ agents' = AgentsAcquired(best)
        /\ agent_order' = agent_order
        /\ active_tasks' = active_tasks \cup {c}
        /\ IF best = None
              THEN /\ executions' = [executions EXCEPT ![c] = _create_task_execution]
                   /\ FailDelegation(c, "AgentUnavailableError", m)
           ELSE IF registry_returns = "dict"
              THEN /\ executions' = [executions EXCEPT ![c] = _create_task_execution]
                   /\ FailDelegation(c, "AttributeError", m)
           ELSE /\ executions' = [executions EXCEPT ![c] =
                        _start_task_execution(
                            [_create_task_execution EXCEPT !.agent_id = best])]
                /\ metrics' = m
                /\ leader_active_tasks' =
                        [leader_active_tasks EXCEPT ![c] = "executing"]
                /\ calls' = [calls EXCEPT ![c] =
                                DelegateCall("agent_call", task_spec, None)]

\* delegate_task up to its first suspension.
DelegateTask ==
    /\ initialized
    /\ next_id < MaxCalls
    /\ next_id' = next_id + 1
    /\ \E agent_type \in AgentTypeInputs, task_type \in TaskTypeInputs,
          complexity \in DelegateComplexities :
        LET c == next_id + 1
            task_spec == TaskSpec(c, agent_type, task_type, complexity)
            cache_key == _get_cache_key(agent_type, task_type)
        IN  IF ScopeRejected(task_spec)
                THEN /\ FailDelegation(c, "ScopeViolationError", metrics)
                     /\ UNCHANGED <<agents, agent_load, agent_order, prompt_cache, executions,
                                    active_tasks>>
            ELSE IF metrics.complexity_budget_used + complexity > complexity_budget
                THEN /\ FailDelegation(c, "TaskExecutionError", metrics)
                     /\ UNCHANGED <<agents, agent_load, agent_order, prompt_cache, executions,
                                    active_tasks>>
            ELSE IF _get_prompt_file(agent_type, task_type) = None
                THEN /\ FailDelegation(c, "ConfigurationError", metrics)
                     /\ UNCHANGED <<agents, agent_load, agent_order, prompt_cache, executions,
                                    active_tasks>>
            ELSE IF CacheHit(prompt_cache, _get_prompt_file(agent_type, task_type),
                             cache_key)
                THEN /\ prompt_cache' = move_to_end(prompt_cache, cache_key)
                     /\ Dispatch(c, task_spec)
            ELSE /\ calls' = [calls EXCEPT ![c] =
                                DelegateCall("read_prompt", task_spec, None)]
                 /\ leader_active_tasks' =
                        [leader_active_tasks EXCEPT ![c] = "delegating"]
                 /\ UNCHANGED <<metrics, agents, agent_load, agent_order, prompt_cache,
                                executions, active_tasks>>
    /\ UNCHANGED queue_vars
    /\ UNCHANGED <<rules_vars, last_call, registry_returns, prompt_files,
                   loading, modified_events, changed_keys,
                   _running, task_history, initialized>>

\* delegate_task resumed after the prompt file was read: the content is
\* validated and cached, prepare_context finds it in the cache, and the call
\* goes on to the agent call.
ReadPromptDone ==
    /\ \E c \in CallIds :
        /\ calls[c].pc = "read_prompt"
        /\ LET task_spec == calls[c].task_spec
               file == _get_prompt_file(task_spec.agent_type, task_spec.task_type)
               cache_key == _get_cache_key(task_spec.agent_type, task_spec.task_type)
           IN  IF ~ContentValid(FileContent(file))
                   THEN /\ FailDelegation(c, "ValidationError", metrics)
                        /\ UNCHANGED <<agents, agent_load, agent_order, prompt_cache,
                                       executions, active_tasks>>
               ELSE /\ prompt_cache' =
                        move_to_end(Loaded(prompt_cache, file, cache_key), cache_key)
                    /\ Dispatch(c, task_spec)
    /\ UNCHANGED queue_vars
    /\ UNCHANGED <<rules_vars, last_call, next_id, registry_returns,
                   prompt_files, loading, modified_events, changed_keys,
                   _running,
                   task_history, initialized>>

\* The agent call returns a result: execute_task completes the execution
\* and its finally removes the record from active_tasks; delegate_task
\* validates the result, updates the metrics and registers the task.
AgentReturnsCall(c, result) ==
    /\ calls[c].pc = "agent_call"
    /\ executions' = [executions EXCEPT ![c] = _complete_task_execution(@)]
    /\ task_history' = Append(task_history, c)
    /\ active_tasks' = active_tasks \ {c}
    /\ IF ~_validate_result(result)
          THEN /\ FailDelegation(c, "TaskExecutionError", metrics)
               /\ UNCHANGED <<current_complexity_used, rules_task_history>>
          ELSE /\ metrics' = [metrics EXCEPT !.total_tasks = @ + 1,
                                             !.completed_tasks = @ + 1]
               /\ current_complexity_used' = register_complexity(calls[c].task_spec)
               /\ rules_task_history' = Append(rules_task_history, c)
               /\ leader_active_tasks' = [leader_active_tasks EXCEPT ![c] = None]
               /\ calls' = [calls EXCEPT ![c] = DelegateCall("done", NoTask, "returned")]
    /\ UNCHANGED queue_vars
    /\ UNCHANGED <<current_phase, phase_history, complexity_budget,
                   rules_agent_registry, last_call, next_id, registry_vars,
                   context_vars, _running, initialized>>

AgentReturns ==
    \E c \in CallIds, result \in ResultInputs : AgentReturnsCall(c, result)

\* The agent call raises, or wait_for gives it up after the timeout:
\* execute_task fails the execution and raises TaskExecutionError.
AgentRaises ==
    /\ \E c \in CallIds, timed_out \in BOOLEAN :
        /\ calls[c].pc = "agent_call"
        /\ timed_out => executions[c].deadline_passed
        /\ executions' = [executions EXCEPT ![c] =
                _fail_task_execution(@, _execute_with_agent_raises(timed_out))]
        /\ task_history' = Append(task_history, c)
        /\ active_tasks' = active_tasks \ {c}
        /\ FailDelegation(c, execute_task_raises(_execute_with_agent_raises(timed_out)),
                          metrics)
    /\ UNCHANGED queue_vars
    /\ UNCHANGED <<rules_vars, last_call, next_id, registry_vars, context_vars,
                   _running, initialized>>

\* The clock passes the timeout_at of an execution.
DeadlinePasses ==
    /\ \E c \in CallIds :
        /\ c \in active_tasks \/ calls[c].pc = "agent_call"
        /\ ~executions[c].deadline_passed
        /\ executions' = [executions EXCEPT ![c].deadline_passed = TRUE]
    /\ UNCHANGED queue_vars
    /\ UNCHANGED <<rules_vars, last_call, next_id, registry_vars, context_vars,
                   _running, active_tasks, task_history, leader_vars>>

\* cancel_task(task_id)
CancelTaskCall(task_id) ==
    /\ DOMAIN agents # {}
    /\ IF task_id \in active_tasks
          THEN /\ executions' = [executions EXCEPT ![task_id] = CancelledExecution(@)]
               /\ active_tasks' = active_tasks \ {task_id}
               /\ task_history' = Append(task_history, task_id)
               /\ last_call' = Call("cancel_task", task_id, TRUE)
          ELSE /\ last_call' = Call("cancel_task", task_id, FALSE)
               /\ UNCHANGED <<executions, active_tasks, task_history>>
    /\ UNCHANGED queue_vars
    /\ UNCHANGED <<rules_vars, next_id, registry_vars, context_vars, _running,
                   leader_vars>>

CancelTask == \E task_id \in CallIds : CancelTaskCall(task_id)

\* The ids of a set in increasing order (the order of the active_tasks dict).
RECURSIVE InOrder(_)
InOrder(ids) ==
    IF ids = {} THEN <<>>
    ELSE LET first == CHOOSE c \in ids : \A d \in ids : c <= d
         IN  <<first>> \o InOrder(ids \ {first})

\* _check_timeouts: the sweep of the timeout checker.
CheckTimeouts ==
    /\ _running
    /\ LET timed_out_tasks ==
               {c \in active_tasks : /\ executions[c].deadline_passed
                                     /\ executions[c].status = "in_progress"}
       IN  /\ executions' = [c \in CallIds |->
                                IF c \in timed_out_tasks
                                    THEN _fail_task_execution(executions[c], "TimeoutError")
                                    ELSE executions[c]]
           /\ task_history' = task_history \o InOrder(timed_out_tasks)
           /\ active_tasks' = active_tasks \ timed_out_tasks
    /\ UNCHANGED queue_vars
    /\ UNCHANGED <<rules_vars, last_call, next_id, registry_vars, context_vars,
                   _running, leader_vars>>

\* TeamLeader.progress_to_phase(target_phase)
LeaderProgressToPhase ==
    /\ initialized
    /\ \E target_phase \in TargetPhaseInputs :
        IF target_phase \in PhaseSet /\ can_progress_to_phase(target_phase)
            THEN /\ phase_history' = Append(phase_history, current_phase)
                 /\ current_phase' = target_phase
                 /\ last_call' = Call("progress_to_phase", target_phase, TRUE)
            ELSE /\ last_call' = Call("progress_to_phase", target_phase, FALSE)
                 /\ UNCHANGED <<current_phase, phase_history>>
    /\ UNCHANGED <<complexity_budget, current_complexity_used,
                   rules_agent_registry, rules_task_history, next_id, system_vars>>

\* TeamLeader.shutdown: TaskOrchestrator.shutdown stops the background
\* loops and sets the status of every active task to CANCELLED.
Shutdown ==
    /\ initialized
    /\ _running' = FALSE
    /\ executions' = [c \in CallIds |->
                        IF c \in active_tasks THEN ShutdownExecution(executions[c])
                                               ELSE executions[c]]
    /\ initialized' = FALSE
    /\ UNCHANGED queue_vars
    /\ UNCHANGED <<rules_vars, last_call, next_id, registry_vars, context_vars,
                   active_tasks, task_history, metrics, leader_active_tasks, calls>>

Next ==
    \/ Initialize
    \/ DelegateTask
    \/ ReadPromptDone
    \/ AgentReturns
    \/ AgentRaises
    \/ DeadlinePasses
    \/ CancelTask
    \/ CheckTimeouts
    \/ LeaderProgressToPhase
    \/ Shutdown

Spec == Init /\ [][Next]_vars

----------------------------------------------------------------------------
\* The background queue of the TaskOrchestrator (queue_task, _task_processor,
\* _process_queued_task), checked under SpecQueue.

MaxQueued == 2

\* The ids queue_task draws with uuid4: distinct from each other and from
\* the ids execute_task draws.
QueueIds == (MaxCalls + 1)..(MaxCalls + MaxQueued)

TrackingIds == CallIds \cup QueueIds

\* asyncio.Queue.get hands over the oldest item.
QueueGet_last(queue) == queue[Len(queue)]

QueueGet(queue) == Head(queue)

QueueWithout(queue, task_data) ==
    SelectSeq(queue, LAMBDA other : other.task_id # task_data.task_id)

\* queue_task(task_spec, callback)
QueueTask ==
    /\ DOMAIN agents # {}
    /\ Len(queued) < MaxQueued
    /\ \E agent_type \in AgentTypeInputs, complexity \in DelegateComplexities,
          callback \in BOOLEAN :
        LET task_id == MaxCalls + Len(queued) + 1
            task_spec == TaskSpec(task_id, agent_type, "research", complexity)
        IN  /\ task_queue' = Append(task_queue, TaskData(task_id, task_spec, callback))
            /\ queued' = Append(queued, task_id)
            /\ last_call' = Call("queue_task", task_spec, task_id)
    /\ UNCHANGED <<processor, dequeued>>
    /\ UNCHANGED <<rules_vars, next_id, registry_vars, context_vars, _running,
                   executions, active_tasks, task_history, leader_vars>>

\* _task_processor takes the next item and _process_queued_task runs
\* execute_task(task_spec) up to the agent call: a fresh id, prepare_context
\* (which loads the prompt), the record, the agent selected, the execution
\* started. An exception raised on the way is printed and the loop goes on.
ProcessQueuedTask ==
    /\ _running
    /\ processor.pc = "idle"
    /\ task_queue # <<>>
    /\ next_id < MaxCalls
    /\ next_id' = next_id + 1
    /\ LET task_data == QueueGet(task_queue)
           task_spec == task_data.task_spec
           task_id == next_id + 1
           file == _get_prompt_file(task_spec.agent_type, task_spec.task_type)
           cache_key == _get_cache_key(task_spec.agent_type, task_spec.task_type)
           best == get_best_agent(task_spec.agent_type, task_spec.task_type,
                                  task_spec.complexity)
       IN  /\ task_queue' = QueueWithout(task_queue, task_data)
           /\ dequeued' = Append(dequeued, task_data.task_id)
           /\ IF file = None
                 THEN /\ processor' = IdleProcessor
                      /\ UNCHANGED <<agents, agent_load, prompt_cache, executions,
                                     active_tasks>>
              ELSE IF /\ ~CacheHit(prompt_cache, file, cache_key)
                      /\ ~ContentValid(FileContent(file))
                 THEN /\ processor' = IdleProcessor
                      /\ UNCHANGED <<agents, agent_load, prompt_cache, executions,
                                     active_tasks>>
              ELSE /\ prompt_cache' =
                          IF CacheHit(prompt_cache, file, cache_key)
                              THEN move_to_end(prompt_cache, cache_key)
                              ELSE move_to_end(Loaded(prompt_cache, file, cache_key),
                                               cache_key)
                   /\ agent_load' = LoadAcquired(agent_load, best)
                   /\ agents' = AgentsAcquired(best)
                   /\ active_tasks' = active_tasks \cup {task_id}
                   /\ IF best = None \/ registry_returns = "dict"
                         THEN /\ executions' = [executions EXCEPT ![task_id] =
                                                    _create_task_execution]
                              /\ processor' = IdleProcessor
                         ELSE /\ executions' = [executions EXCEPT ![task_id] =
                                    _start_task_execution(
                                        [_create_task_execution EXCEPT !.agent_id = best])]
                              /\ processor' = Processor("executing", task_data, task_id)
    /\ UNCHANGED <<rules_vars, last_call, queued, agent_order, registry_returns,
                   prompt_files, loading, modified_events, changed_keys,
                   _running, task_history, leader_vars>>

\* The agent call of the queued task returns: execute_task completes the
\* execution, its finally removes the record from active_tasks, and
\* _process_queued_task awaits the callback if there is one.
QueuedAgentReturns ==
    /\ processor.pc = "executing"
    /\ LET task_id == processor.execution_id
       IN  /\ executions' = [executions EXCEPT ![task_id] = _complete_task_execution(@)]
           /\ task_history' = Append(task_history, task_id)
           /\ active_tasks' = active_tasks \ {task_id}
    /\ processor' = IF processor.task_data.callback
                        THEN Processor("callback", processor.task_data,
                                       processor.execution_id)
                        ELSE IdleProcessor
    /\ UNCHANGED <<task_queue, queued, dequeued>>
    /\ UNCHANGED <<rules_vars, last_call, next_id, registry_vars, context_vars,
                   _running, leader_vars>>

\* An exception of execute_task ending the processor loop.
QueuedAgentRaises_stops_loop ==
    /\ processor.pc = "executing"
    /\ LET task_id == processor.execution_id
       IN  /\ executions' = [executions EXCEPT ![task_id] =
                   _fail_task_execution(@, _execute_with_agent_raises(FALSE))]
           /\ task_history' = Append(task_history, task_id)
           /\ active_tasks' = active_tasks \ {task_id}
    /\ processor' = Processor("stopped", NoTaskData, 0)
    /\ UNCHANGED <<task_queue, queued, dequeued>>
    /\ UNCHANGED <<rules_vars, last_call, next_id, registry_vars, context_vars,
                   _running, leader_vars>>

\* The agent call of the queued task raises: execute_task fails the
\* execution and raises TaskExecutionError, which _process_queued_task
\* prints; the callback is not called.
QueuedAgentRaises ==
    /\ processor.pc = "executing"
    /\ LET task_id == processor.execution_id
       IN  /\ executions' = [executions EXCEPT ![task_id] =
                   _fail_task_execution(@, _execute_with_agent_raises(FALSE))]
           /\ task_history' = Append(task_history, task_id)
           /\ active_tasks' = active_tasks \ {task_id}
    /\ processor' = IdleProcessor
    /\ UNCHANGED <<task_queue, queued, dequeued>>
    /\ UNCHANGED <<rules_vars, last_call, next_id, registry_vars, context_vars,
                   _running, leader_vars>>

\* The callback returns or raises: _process_queued_task ends and the loop
\* waits for the next item.
CallbackEnds ==
    /\ processor.pc = "callback"
    /\ processor' = IdleProcessor
    /\ last_call' = Call("callback", processor.task_data.task_id,
                         processor.execution_id)
    /\ UNCHANGED <<task_queue, queued, dequeued>>
    /\ UNCHANGED <<rules_vars, next_id, registry_vars, context_vars,
                   _running, executions, active_tasks, task_history, leader_vars>>

\* get_task_status(task_id): the record among the active tasks, else in the
\* history, else None. The record is represented by its status.
get_task_status(task_id) ==
    IF task_id \in active_tasks THEN executions[task_id].status
    ELSE IF \E i \in 1..Len(task_history) : task_history[i] = task_id
        THEN executions[task_id].status
    ELSE None

GetTaskStatusCall(task_id) ==
    /\ DOMAIN agents # {}
    /\ last_call' = Call("get_task_status", task_id, get_task_status(task_id))
    /\ UNCHANGED <<rules_vars, next_id, system_vars>>

GetTaskStatus == \E task_id \in TrackingIds : GetTaskStatusCall(task_id)

\* cancel_task called with an id of execute_task or with an id returned by
\* queue_task.
CancelQueuedTask == \E task_id \in TrackingIds : CancelTaskCall(task_id)

\* TeamLeader.shutdown with the queue in use: the processor task is
\* cancelled, the finally of an execute_task in flight removes its record
\* from active_tasks, and the remaining active tasks are set to CANCELLED.
ShutdownQueue ==
    /\ initialized
    /\ _running' = FALSE
    /\ initialized' = FALSE
    /\ processor' = IdleProcessor
    /\ LET remaining == IF processor.pc = "executing"
                            THEN active_tasks \ {processor.execution_id}
                            ELSE active_tasks
       IN  /\ active_tasks' = remaining
           /\ executions' = [c \in CallIds |->
                                IF c \in remaining THEN ShutdownExecution(executions[c])
                                                   ELSE executions[c]]
    /\ UNCHANGED <<task_queue, queued, dequeued>>
    /\ UNCHANGED <<rules_vars, last_call, next_id, registry_vars, context_vars,
                   task_history, metrics, leader_active_tasks, calls>>

NextQueue ==
    \/ Initialize
    \/ QueueTask
    \/ ProcessQueuedTask
    \/ QueuedAgentReturns
    \/ QueuedAgentRaises
    \/ CallbackEnds
    \/ GetTaskStatus
    \/ CancelQueuedTask
    \/ ShutdownQueue

SpecQueue == Init /\ [][NextQueue]_vars

\* The queue with the scheduling of the event loop: the processor task gets
\* its turn whenever an item waits, the agent call ends by its result, its
\* exception or the timeout of wait_for, and a callback ends.
SpecQueueFair ==
    /\ SpecQueue
    /\ WF_vars(ProcessQueuedTask)
    /\ WF_vars(QueuedAgentReturns \/ QueuedAgentRaises)
    /\ WF_vars(CallbackEnds)

----------------------------------------------------------------------------
\* The life cycle of the TeamLeader (initialize, get_status, shutdown, and
\* the calls refused while not initialized), checked under SpecLifecycle.

get_status_always_operational == "operational"

\* get_status()["status"]
get_status == IF ~initialized THEN "not_initialized" ELSE "operational"

GetStatus ==
    /\ last_call' = Call("get_status", None, get_status)
    /\ UNCHANGED <<rules_vars, next_id, system_vars>>

\* delegate_task called while not initialized: AgentSDKError is raised
\* before the TaskSpec is built.
DelegateTaskNotInitialized ==
    /\ ~initialized
    /\ \E agent_type \in AgentTypeInputs, task_type \in TaskTypeInputs :
        last_call' = Call("delegate_task", <<agent_type, task_type>>, "AgentSDKError")
    /\ UNCHANGED <<rules_vars, next_id, system_vars>>

\* progress_to_phase called while not initialized
ProgressToPhaseNotInitialized ==
    /\ ~initialized
    /\ \E target_phase \in TargetPhaseInputs :
        last_call' = Call("progress_to_phase", target_phase, "AgentSDKError")
    /\ UNCHANGED <<rules_vars, next_id, system_vars>>

\* TeamLeader.initialize after a shutdown: a new TaskOrchestrator, the
\* prompts loaded again, the agents registered again with load 0. Taken
\* when no delegate_task call of the old orchestrator is still suspended.
Reinitialize ==
    /\ ~initialized
    /\ DOMAIN agents # {}
    /\ \A c \in CallIds : calls[c].pc \notin {"read_prompt", "agent_call"}
    /\ LET config(a) == AgentConfigs[CHOOSE i \in 1..Len(AgentConfigs) :
                                        AgentConfigs[i].agent_id = a]
       IN  /\ agents' = [a \in DOMAIN agents |-> RegisteredAgent(config(a))]
           /\ agent_load' = [a \in DOMAIN agents |-> 0]
    /\ prompt_cache' = LoadAll(prompt_cache, 1)
    /\ active_tasks' = {}
    /\ task_history' = <<>>
    /\ task_queue' = <<>>
    /\ processor' = IdleProcessor
    /\ _running' = TRUE
    /\ initialized' = TRUE
    /\ UNCHANGED <<rules_vars, last_call, next_id, agent_order, registry_returns,
                   prompt_files, loading, modified_events, changed_keys,
                   executions, queued, dequeued, metrics, leader_active_tasks,
                   calls>>

NextLifecycle ==
    \/ Initialize
    \/ Reinitialize
    \/ GetStatus
    \/ DelegateTaskNotInitialized
    \/ ProgressToPhaseNotInitialized
    \/ DelegateTask
    \/ ReadPromptDone
    \/ AgentReturns
    \/ AgentRaises
    \/ LeaderProgressToPhase
    \/ Shutdown

SpecLifecycle == Init /\ [][NextLifecycle]_vars

----------------------------------------------------------------------------
\* Properties of the RulesEngine (checked under SpecRules).

ValidateReturned == last_call.op = "validate_scope"

TypeAllowed(task_spec) ==
    task_spec.task_type \in phase_configs[current_phase].allowed_tasks

FitsBudget(task_spec) ==
    current_complexity_used + task_spec.complexity <= complexity_budget

FitsPhaseMaximum(task_spec) ==
    task_spec.complexity <= phase_configs[current_phase].max_complexity

ScopeViolations ==
    {"task_type_not_allowed", "exceeds_remaining_budget",
     "exceeds_phase_maximum", "agent_not_available"}

\* C1: with tasks submitted one after another and registered only after
\* validate_scope accepted them, current_complexity_used never exceeds
\* complexity_budget; a task that would take the total over the budget is
\* rejected with a scope violation, and the rejection leaves the counter at
\* its previous value.
C1_BudgetNeverExceeded ==
    /\ [](/\ current_complexity_used <= complexity_budget
          /\ (ValidateReturned /\ ~FitsBudget(last_call.arg))
                => last_call.result \in ScopeViolations)
    /\ [][(last_call'.op = "validate_scope" /\ last_call'.result # "ok")
            => current_complexity_used' = current_complexity_used]_vars

\* The second task of the scenario "6 then 5 under a budget of 10" has been
\* rejected with 6 used.
C1_Witness ==
    /\ complexity_budget = 10
    /\ current_complexity_used = 6
    /\ Len(rules_task_history) = 1
    /\ ValidateReturned
    /\ last_call.arg.complexity = 5
    /\ TypeAllowed(last_call.arg)
    /\ last_call.result = "exceeds_remaining_budget"

ImmediateSuccessor(target) == PhaseIndex(target) = PhaseIndex(current_phase) + 1

\* C6: progress_to_phase(target) returns true, appends the previous current
\* phase to phase_history and makes target current exactly when target is
\* the immediate successor of the current phase; for every other target it
\* returns false and leaves current_phase and phase_history unchanged.
C6_ProgressExactlyToSuccessor ==
    [][last_call'.op = "progress_to_phase" =>
        IF ImmediateSuccessor(last_call'.arg)
            THEN /\ last_call'.result = TRUE
                 /\ current_phase' = last_call'.arg
                 /\ phase_history' = Append(phase_history, current_phase)
            ELSE /\ last_call'.result = FALSE
                 /\ UNCHANGED <<current_phase, phase_history>>]_vars

\* A progression two steps ahead was refused after three had succeeded.
C6_Witness ==
    /\ last_call.op = "progress_to_phase"
    /\ last_call.result = FALSE
    /\ PhaseIndex(last_call.arg) = PhaseIndex(current_phase) + 2
    /\ phase_history = <<Phase[1], Phase[2], Phase[3]>>
    /\ current_phase = Phase[4]

LinearStep ==
    /\ PhaseIndex(current_phase') \in
          {PhaseIndex(current_phase), PhaseIndex(current_phase) + 1}
    /\ (current_phase' # current_phase)
          => last_call' = Call("progress_to_phase", current_phase', TRUE)
    /\ (current_phase = Phase[Len(Phase)]) => (current_phase' = current_phase)

\* C7: the position of the current phase never decreases and grows by at
\* most one per step, and only by a progress_to_phase call; once the current
\* phase is the last one nothing changes it; the last phase is reached from
\* the initial one by exactly ten successful progressions.
C7_LinearAdvance ==
    /\ [][LinearStep]_vars
    /\ [](current_phase = Phase[Len(Phase)] => Len(phase_history) = 10)

\* A progress_to_phase call was refused in the last phase.
C7_Witness ==
    /\ current_phase = "preparation"
    /\ Len(phase_history) = 10
    /\ last_call.op = "progress_to_phase"
    /\ last_call.result = FALSE

----------------------------------------------------------------------------
\* Properties of the TeamLeader and its TaskOrchestrator (checked under Spec).

\* C2: in every reachable state of a TeamLeader, delegate_task calls in
\* flight together and interleaving at the prompt file read and the agent
\* call included, RulesEngine.current_complexity_used is at most
\* complexity_budget.
C2_BudgetUnderConcurrency == current_complexity_used <= complexity_budget

\* C8: once the status of a TaskExecution is completed, failed, cancelled or
\* timeout, no later step of execute_task, cancel_task, the timeout sweep or
\* shutdown changes it.
C8_TerminalStatusFinal ==
    [][\A c \in CallIds :
          executions[c].status \in TerminalStatuses
              => executions'[c].status = executions[c].status]_vars

\* C9: every TaskExecution with a terminal status has its completion time
\* set, is absent from active_tasks and is present in task_history.
C9_TerminalBookkeeping ==
    \A c \in CallIds :
        executions[c].status \in TerminalStatuses
            => /\ executions[c].completed_at
               /\ c \notin active_tasks
               /\ \E i \in 1..Len(task_history) : task_history[i] = c

\* Whether a sequence is a prefix of another.
IsPrefix(s, t) == Len(s) <= Len(t) /\ \A i \in 1..Len(s) : s[i] = t[i]

\* C10: the statuses assigned to a TaskExecution are pending, delegated,
\* in_progress and then exactly one terminal status, in this order, none
\* skipped.
C10_StatusChain ==
    \A c \in CallIds :
        \E terminal \in TerminalStatuses :
            IsPrefix(executions[c].trail,
                     <<"pending", "delegated", "in_progress", terminal>>)

\* C11: while the orchestrator is running, a run of the timeout sweep leaves
\* every task of active_tasks whose deadline has passed failed (or timed out)
\* and out of active_tasks, and changes no task whose deadline has not
\* passed.
C11_SweepFailsOverdue ==
    [][CheckTimeouts =>
          \A c \in active_tasks :
              IF executions[c].deadline_passed
                  THEN /\ c \notin active_tasks'
                       /\ executions'[c].status \in {"failed", "timeout"}
                  ELSE /\ c \in active_tasks'
                       /\ executions'[c] = executions[c]]_vars

\* C12: an execute_task call whose agent call is given up after the timeout
\* raises TimeoutError, one whose agent call raises another exception raises
\* TaskExecutionError, and one whose agent call returns leaves the record
\* completed.
C12_ExecuteTaskOutcomes ==
    [][\A c \in CallIds :
          (calls[c].pc = "agent_call" /\ calls'[c].pc = "done")
              => IF executions'[c].status = "failed"
                    THEN IF executions'[c].error_type = "TimeoutError"
                            THEN calls'[c].outcome = "TimeoutError"
                            ELSE calls'[c].outcome = "TaskExecutionError"
                    ELSE executions'[c].status = "completed"]_vars

\* C13: cancel_task(id) returns true exactly when id is in active_tasks, and
\* then the record is cancelled with its completion time set, leaves
\* active_tasks and is appended to task_history, no other record changing;
\* otherwise it returns false and changes no record, active_tasks or
\* task_history.
C13_CancelTask ==
    [][\A task_id \in CallIds :
          CancelTaskCall(task_id)
              => /\ last_call'.result = (task_id \in active_tasks)
                 /\ IF task_id \in active_tasks
                       THEN /\ executions'[task_id].status = "cancelled"
                            /\ executions'[task_id].completed_at
                            /\ active_tasks' = active_tasks \ {task_id}
                            /\ task_history' = Append(task_history, task_id)
                            /\ \A c \in CallIds \ {task_id} :
                                   executions'[c] = executions[c]
                       ELSE UNCHANGED <<executions, active_tasks, task_history>>]_vars

\* cancel_task has returned true for a task whose agent call is suspended,
\* and false for an id never tracked.
C13_Witness ==
    \E task_id \in CallIds :
        /\ last_call = Call("cancel_task", task_id, TRUE)
        /\ executions[task_id].status = "cancelled"
        /\ calls[task_id].pc = "agent_call"
        /\ \E other \in CallIds : executions[other].status = "none"

\* No registered agent can take a request of this type and complexity.
NoAgentQualifies(agent_type, complexity) ==
    \A a \in DOMAIN agents :
        \/ agents[a].agent_type # agent_type
        \/ agents[a].status # "active"
        \/ agent_load[a] >= agents[a].max_load
        \/ complexity > agents[a].max_complexity

\* C15: an execute_task call finding no qualifying agent fails with
\* AgentUnavailableError at once, every load unchanged and no agent invoked;
\* an agent is only invoked when one qualified.
C15_NoAgentAvailable ==
    [][\A c \in CallIds :
          (executions[c].status = "none" /\ executions'[c].status # "none")
              => /\ (/\ calls[c].pc = "read_prompt"
                     /\ NoAgentQualifies(calls[c].task_spec.agent_type,
                                          calls[c].task_spec.complexity))
                        => calls'[c].outcome = "AgentUnavailableError"
                 /\ calls'[c].outcome = "AgentUnavailableError"
                        => /\ agent_load' = agent_load
                           /\ agents' = agents
                           /\ calls'[c].pc = "done"
                           /\ executions'[c].agent_id = None
                 /\ calls'[c].pc = "agent_call"
                        => ~NoAgentQualifies(calls'[c].task_spec.agent_type,
                                             calls'[c].task_spec.complexity)]_vars

\* A call failed with AgentUnavailableError while the only agent of its type
\* stands at its max_load.
C15_Witness ==
    \E c \in CallIds :
        /\ calls[c].outcome = "AgentUnavailableError"
        /\ executions[c].agent_id = None
        /\ agent_load["backend_coder"] = agents["backend_coder"].max_load

\* C17: once every execute_task call has ended, the load of every agent is
\* back to 0, the value it had before the calls.
C17_LoadReleased ==
    (\A c \in CallIds : ~InFlight(c))
        => \A a \in DOMAIN agent_load : agent_load[a] = 0

----------------------------------------------------------------------------
\* Properties of the AgentRegistry (checked under SpecRegistry).

\* The registered agents a request can go to.
Qualifying(agent_type, complexity) ==
    {a \in DOMAIN agents :
        /\ agents[a].agent_type = agent_type
        /\ agents[a].status = "active"
        /\ agent_load[a] < agents[a].max_load
        /\ agents[a].max_complexity >= complexity}

\* C14: when some agent qualifies, get_best_agent returns a qualifying agent
\* of minimal load, raises its load by exactly one and changes no other
\* agent's load.
C14_BestAgentLowestLoad ==
    [][\A agent_type \in {"backend", "research"}, complexity \in RequestComplexities :
          (/\ GetBestAgentCall(agent_type, "api_development", complexity)
           /\ Qualifying(agent_type, complexity) # {})
              => LET best == last_call'.result
                 IN  /\ best \in Qualifying(agent_type, complexity)
                     /\ \A a \in Qualifying(agent_type, complexity) :
                            agent_load[best] <= agent_load[a]
                     /\ agent_load'[best] = agent_load[best] + 1
                     /\ \A a \in DOMAIN agent_load \ {best} :
                            agent_load'[a] = agent_load[a]]_vars

\* Two backend agents of max_load 5 stood at loads 1 and 3; get_best_agent
\* returned the one at load 1, whose load is now 2.
C14_Witness ==
    \E best \in DOMAIN agents, other \in DOMAIN agents :
        /\ last_call.op = "get_best_agent"
        /\ last_call.arg = <<"backend", "api_development", 7>>
        /\ last_call.result = best
        /\ agents[best].agent_type = "backend" /\ agents[other].agent_type = "backend"
        /\ agents[best].max_load = 5 /\ agents[other].max_load = 5
        /\ agents[best].max_complexity = 10 /\ agents[other].max_complexity = 10
        /\ agent_load[best] = 2
        /\ agent_load[other] = 3

\* C16: the load of every registered agent is at least 0 and at most its
\* max_load, and is the current_load of its record.
C16_LoadWithinMaxLoad ==
    \A a \in DOMAIN agents :
        /\ 0 <= agent_load[a]
        /\ agent_load[a] <= agents[a].max_load
        /\ agents[a].current_load = agent_load[a]

\* An agent stands at its max_load and a request for its type was refused.
C16_Witness ==
    /\ last_call.op = "get_best_agent"
    /\ last_call.result = None
    /\ \E a \in DOMAIN agents :
          /\ agents[a].agent_type = last_call.arg[1]
          /\ agents[a].max_complexity >= last_call.arg[3]
          /\ agent_load[a] = agents[a].max_load

\* C18: after register_agent the agent's record is active with load 0, for
\* a new id and for a registered one; registering the same id with the same
\* configuration a second time in a row changes nothing.
C18_RegisterAgentIdempotent ==
    [][\A agent_id \in RegistryAgentIds, agent_config \in RegistryAgentConfigs :
          RegisterAgentCall(agent_id, agent_config)
              => /\ agents'[agent_id].status = "active"
                 /\ agents'[agent_id].current_load = 0
                 /\ agent_load'[agent_id] = 0
                 /\ last_call = Call("register_agent", <<agent_id, agent_config>>, TRUE)
                        => UNCHANGED <<agents, agent_load, agent_order>>]_vars

\* An agent that had taken tasks was registered again: its load is 0 while
\* the other agent keeps its load.
C18_Witness ==
    \E agent_id \in DOMAIN agents, other \in DOMAIN agents :
        /\ last_call.op = "register_agent"
        /\ last_call.arg[1] = agent_id
        /\ agent_order[1] = agent_id
        /\ agent_load[agent_id] = 0
        /\ agents[agent_id].status = "active"
        /\ agent_load[other] = 2

----------------------------------------------------------------------------
\* Properties of the ContextManager (checked under SpecContext).

C20_ChangedFileReloaded ==
    [][\A agent_type \in LoadAgentTypes, task_type \in LoadTaskTypes :
          LET file == _get_prompt_file(agent_type, task_type)
              cache_key == _get_cache_key(agent_type, task_type)
              changed == /\ file # None
                         /\ cache_key \in changed_keys
                         /\ ContentValid(FileContent(file))
              served == /\ LoadPromptCall(agent_type, task_type, FALSE)
                        /\ loading' = NoLoad
                        /\ file \notin modified_events
              reloaded == /\ LoadPromptResume
                          /\ loading.args[1] = agent_type
                          /\ loading.args[2] = task_type
                          /\ loading.content = FileContent(file)
                          /\ loading.args[3] \/ file \notin modified_events
          IN  (changed /\ (served \/ reloaded))
                  => /\ last_call'.result.content = FileContent(file)
                     /\ CacheEntry(prompt_cache', cache_key).checksum =
                            _calculate_checksum(file)]_vars

\* C23: a load_prompt call whose prompt file does not exist raises
\* ConfigurationError, and one whose resolved file holds a text failing the
\* validation raises ValidationError; in both cases the caller gets no
\* content and the prompt cache is what it was before the call.
C23_InvalidPromptRaises ==
    [][\A agent_type \in LoadAgentTypes, task_type \in LoadTaskTypes :
          LET file == _get_prompt_file(agent_type, task_type)
              returned == /\ \E force_reload \in BOOLEAN :
                                LoadPromptCall(agent_type, task_type, force_reload)
                          /\ loading' = NoLoad
              resumed == /\ LoadPromptResume
                         /\ loading.args[1] = agent_type
                         /\ loading.args[2] = task_type
              invalid == \/ returned /\ file # None /\ ~ContentValid(FileContent(file))
                         \/ resumed /\ ~ContentValid(loading.content)
          IN  /\ (returned /\ file = None)
                    => /\ last_call'.result.raised = "ConfigurationError"
                       /\ last_call'.result.content = None
                       /\ prompt_cache' = prompt_cache
              /\ invalid
                    => /\ last_call'.result.raised = "ValidationError"
                       /\ last_call'.result.content = None
                       /\ prompt_cache' = prompt_cache]_vars

----------------------------------------------------------------------------
\* Properties of the prompt cache at its size limit (checked under SpecCache).

\* C21: the prompt cache never holds more than max_cache_size entries, and
\* every load_prompt that returns content (from the cache, from a first
\* load or from a reload) leaves the key it loaded as the most recent entry
\* and the other entries in their former order, the cache having lost only
\* as many of its least recent entries as the limit requires.
C21_CacheBoundedLRU ==
    [][/\ Len(prompt_cache') <= max_cache_size
       /\ \A agent_type \in CacheAgentTypes :
            LET cache_key == _get_cache_key(agent_type, None)
                served == /\ \E force_reload \in BOOLEAN :
                                LoadPromptCall(agent_type, None, force_reload)
                          /\ loading' = NoLoad
                loaded == /\ LoadPromptResume
                          /\ loading.args[1] = agent_type
                others == Without(prompt_cache, cache_key)
                over == Len(others) + 1 - max_cache_size
                kept == IF over > 0
                            THEN SubSeq(others, over + 1, Len(others))
                            ELSE others
            IN  ((served \/ loaded) /\ last_call'.result.raised = None)
                    => /\ prompt_cache' # <<>>
                       /\ prompt_cache'[Len(prompt_cache')].key = cache_key
                       /\ SubSeq(prompt_cache', 1, Len(prompt_cache') - 1) = kept]_vars

\* The prompt of agent type "1" was loaded into a full cache after a cache
\* hit on "2": the entry of "3" went, the entry of "2" stayed.
C21_Witness ==
    /\ last_call.op = "load_prompt"
    /\ last_call.arg[1] = "1"
    /\ last_call.result.disk_read
    /\ last_call.result.raised = None
    /\ Len(prompt_cache) = max_cache_size
    /\ prompt_cache[Len(prompt_cache)].key = _get_cache_key("1", None)
    /\ InCache(prompt_cache, _get_cache_key("2", None))
    /\ ~InCache(prompt_cache, _get_cache_key("3", None))

----------------------------------------------------------------------------
\* Properties of the watcher's reload (checked under SpecWatcher).

CachedKeys(cache) == {cache[i].key : i \in 1..Len(cache)}

\* C22: the watcher's reload of a modified file with valid content works
\* on the keys under which load_prompt cached that file: afterwards every
\* cached entry backed by the file holds the content and the checksum of
\* the file, and the cache has entries for the same keys as before.
C22_WatcherReloadsBackedEntries ==
    [][\A parts \in modified_events :
          (/\ ReloadPromptFile
           /\ modified_events' = modified_events \ {parts}
           /\ ContentValid(FileContent(parts))
           /\ CachedKeysOf(prompt_cache, parts) # {})
              => /\ CachedKeys(prompt_cache') = CachedKeys(prompt_cache)
                 /\ \A cache_key \in CachedKeysOf(prompt_cache, parts) :
                       /\ CacheEntry(prompt_cache', cache_key).content =
                              FileContent(parts)
                       /\ CacheEntry(prompt_cache', cache_key).checksum =
                              _calculate_checksum(parts)]_vars

----------------------------------------------------------------------------
\* Properties of the default prompts (checked under SpecDefaults).

\* C24: over the default prompt files, every load_prompt for an agent type
\* of the default configuration, load_prompt("research", "web_search")
\* among them, returns prompt content.
C24_DefaultPromptsLoad ==
    (last_call.op = "load_prompt" /\ prompt_files = DefaultPromptFiles)
        => /\ last_call.result.raised = None
           /\ ContentValid(last_call.result.content)

----------------------------------------------------------------------------
\* Properties of delegate_task (checked under Spec).

\* C25: the steps of a delegate_task call follow one another in the order
\* scope validation, prompt loading, dispatch, result validation,
\* registration, return. A call goes past the scope validation only with a
\* task validate_scope accepts; the orchestrator's record is created only
\* with the prompt in the cache; the task is registered only when the
\* agent call of the dispatched task has returned and the execution is
\* completed, and the call returns a result only then. A call rejected by
\* validate_scope creates no record, changes no agent's load and registers
\* nothing.
C25_DelegateStepOrder ==
    [][\A c \in CallIds :
          LET started == calls[c].pc = "idle" /\ calls'[c].pc # "idle"
              dispatched == executions[c] = NoExecution /\ executions'[c] # NoExecution
              registered == /\ ~\E i \in 1..Len(rules_task_history) :
                                    rules_task_history[i] = c
                            /\ \E i \in 1..Len(rules_task_history') :
                                    rules_task_history'[i] = c
          IN  /\ (started /\ InFlight(c)')
                    => validate_scope(calls'[c].task_spec) = "ok"
              /\ (started /\ calls'[c].outcome = "ScopeViolationError")
                    => /\ agent_load' = agent_load
                       /\ prompt_cache' = prompt_cache
                       /\ c \notin active_tasks'
              /\ calls'[c].outcome = "ScopeViolationError"
                    => /\ executions'[c] = NoExecution
                       /\ ~\E i \in 1..Len(rules_task_history') :
                               rules_task_history'[i] = c
              /\ dispatched
                    => /\ started \/ calls[c].pc = "read_prompt"
                       /\ prompt_cache' # <<>>
                       /\ calls'[c].pc = "agent_call"
                            => LET task_spec == calls'[c].task_spec
                               IN  prompt_cache'[Len(prompt_cache')].key =
                                     _get_cache_key(task_spec.agent_type,
                                                    task_spec.task_type)
              /\ registered
                    => /\ calls[c].pc = "agent_call"
                       /\ executions'[c].status = "completed"
                       /\ calls'[c].outcome = "returned"
              /\ (calls[c].outcome # "returned" /\ calls'[c].outcome = "returned")
                    => registered]_vars

\* One call was rejected by validate_scope and another one went through
\* every step and returned its result.
C25_Witness ==
    \E c, d \in CallIds :
        /\ calls[c].outcome = "ScopeViolationError"
        /\ executions[c] = NoExecution
        /\ calls[d].outcome = "returned"
        /\ executions[d].status = "completed"
        /\ rules_task_history = <<d>>

\* C26: when the agent returns a result whose trimmed content is shorter
\* than 10 characters, whose confidence score is below 0.3 or whose text
\* holds a mock indicator, delegate_task fails and the task is not
\* registered: current_complexity_used and the task history of the rules
\* engine stay as they were.
C26_PoorResultNotRegistered ==
    [][\A c \in CallIds, result \in ResultInputs :
          (/\ AgentReturnsCall(c, result)
           /\ \/ result.content_length < 10
              \/ result.confidence_score < 30
              \/ result.has_mock_indicator)
              => /\ calls'[c].pc = "done"
                 /\ calls'[c].outcome = "TaskExecutionError"
                 /\ current_complexity_used' = current_complexity_used
                 /\ rules_task_history' = rules_task_history
                 /\ metrics'.failed_tasks = metrics.failed_tasks + 1]_vars

\* A delegate_task call failed on the result of its agent, with nothing
\* registered in the rules engine.
C26_Witness ==
    \E c \in CallIds :
        /\ calls[c].outcome = "TaskExecutionError"
        /\ executions[c].status = "completed"
        /\ rules_task_history = <<>>
        /\ current_complexity_used = 0

\* C27: delegate_task raises the kind of failure that occurred:
\* ScopeViolationError for a scope violation, AgentUnavailableError when no
\* agent qualifies, TaskExecutionError for a failure of the agent.
C27_TypedFailures ==
    \A c \in CallIds :
        /\ calls[c].outcome = "ScopeViolationError"
              => delegate_task_raises(calls[c].outcome) = "ScopeViolationError"
        /\ calls[c].outcome = "AgentUnavailableError"
              => delegate_task_raises(calls[c].outcome) = "AgentUnavailableError"
        /\ (calls[c].outcome = "TaskExecutionError" /\ executions[c].status = "failed")
              => delegate_task_raises(calls[c].outcome) = "TaskExecutionError"


----------------------------------------------------------------------------
\* Properties of the background queue (checked under SpecQueue).

\* C28: queued tasks are handed to execute_task in the order of the
\* queue_task calls, one at a time: a task is taken from the queue only
\* when the execution and the callback of the task before it have ended,
\* and the task the loop works on is the last one taken.
C28_QueueFIFO ==
    [][/\ IsPrefix(dequeued', queued')
       /\ dequeued' # dequeued =>
            /\ processor.pc = "idle"
            /\ \A c \in active_tasks : executions[c].status # "in_progress"
       /\ processor'.pc # "idle" =>
            /\ dequeued' # <<>>
            /\ processor'.task_data.task_id = dequeued'[Len(dequeued')]]_vars

\* Two tasks were queued, the first one ran to completion, and the second
\* one is executing.
C28_Witness ==
    /\ Len(dequeued) = MaxQueued
    /\ dequeued = queued
    /\ processor.pc = "executing"
    /\ processor.task_data.task_id = queued[MaxQueued]
    /\ \E c \in CallIds :
        /\ executions[c].status = "completed"
        /\ c # processor.execution_id

\* C29: the id returned by queue_task tracks the task: while the loop
\* executes the queued task, get_task_status with that id returns the
\* record and cancel_task with that id cancels the execution.
C29_QueueIdTracksTask ==
    [][\A task_id \in QueueIds :
        (/\ processor.pc = "executing"
         /\ processor.task_data.task_id = task_id
         /\ processor.execution_id \in active_tasks)
        => /\ GetTaskStatusCall(task_id) => last_call'.result # None
           /\ CancelTaskCall(task_id) =>
                /\ last_call'.result = TRUE
                /\ executions'[processor.execution_id].status = "cancelled"]_vars

----------------------------------------------------------------------------
\* Properties of the life cycle (checked under SpecLifecycle).

\* The step is a call of op: op becomes the operation of last_call, and
\* either it was another operation before or the call is all that happened.
Called(op) ==
    /\ last_call'.op = op
    /\ last_call.op # op \/ UNCHANGED <<rules_vars, next_id, system_vars>>

\* C30: get_status reports "not_initialized" before initialize,
\* "operational" from a successful initialize until shutdown and
\* "not_initialized" after it, no other step changing what it reports;
\* delegate_task and progress_to_phase called while not initialized raise
\* AgentSDKError and leave the phase, the counters and the tracked tasks
\* as they were.
C30_StatusFollowsLifecycle ==
    /\ get_status = "not_initialized"
    /\ [][/\ Initialize \/ Reinitialize => get_status' = "operational"
          /\ Shutdown => get_status' = "not_initialized"
          /\ ~(Initialize \/ Reinitialize \/ Shutdown) => get_status' = get_status
          /\ Called("get_status") => last_call'.result = get_status'
          /\ \A op \in {"delegate_task", "progress_to_phase"} :
                ~initialized /\ Called(op)
                => /\ last_call'.result = "AgentSDKError"
                   /\ UNCHANGED <<rules_vars, next_id, metrics, leader_active_tasks,
                                  calls, executions, active_tasks, task_history,
                                  initialized>>]_vars

\* get_status is called after a shutdown that followed delegated tasks.
C30_Witness ==
    /\ last_call = Call("get_status", None, "not_initialized")
    /\ DOMAIN agents # {}
    /\ \E c \in CallIds : calls[c].pc = "done"

----------------------------------------------------------------------------
\* Further properties of the TeamLeader (checked under Spec).

\* C31: on a freshly initialized TeamLeader, in the phase initialization,
\* progress_to_phase("exploration") returns True.
C31_ExplorationFromInitialization ==
    [][(/\ initialized
        /\ current_phase = "initialization"
        /\ Called("progress_to_phase")
        /\ last_call'.arg = "exploration")
       => last_call'.result = TRUE]_vars

\* C32: once the execute_task call of a delegation has returned or raised,
\* also when no agent was available or the selection failed, the record
\* the call created is no longer in active_tasks.
C32_NoRecordLeftActive ==
    \A c \in CallIds : calls[c].pc = "done" => c \notin active_tasks

\* C33: no TaskExecution appears more than once in task_history, however
\* the end of an execute_task in flight interleaves with cancel_task and
\* the timeout sweep on the same task.
C33_HistoryWithoutDuplicates ==
    \A i, j \in 1..Len(task_history) :
        task_history[i] = task_history[j] => i = j

----------------------------------------------------------------------------
\* A further property of the prompt cache (checked under SpecContext).

\* C34: every prompt cache entry is coherent, its checksum being the hash
\* of its own content, also when the file is rewritten or reloaded while a
\* load of the key is suspended in its file read.
C34_CacheEntriesCoherent ==
    \A i \in 1..Len(prompt_cache) :
        prompt_cache[i].checksum = <<"sha256", prompt_cache[i].content>>

----------------------------------------------------------------------------
\* Properties of the counters of the TeamLeader (checked under Spec).

NoCallInFlight == \A c \in CallIds : calls[c].pc \in {"idle", "done"}

\* C35: whenever no delegate_task call is in flight,
\* metrics.complexity_budget_used equals the current_complexity_used of the
\* RulesEngine, after successful, failed and rejected delegations alike.
C35_BudgetCountersAgree ==
    NoCallInFlight => metrics.complexity_budget_used = current_complexity_used

\* C39: the counters of the TeamLeader are consistent after any sequence of
\* delegate_task calls: total_tasks = completed_tasks + failed_tasks.
C39_TotalIsCompletedPlusFailed ==
    NoCallInFlight =>
        metrics.total_tasks = metrics.completed_tasks + metrics.failed_tasks

\* C40: TeamLeader.active_tasks holds exactly the delegations in flight:
\* a call that has returned or raised has no entry, and with no call in
\* flight the map is empty.
C40_LeaderActiveTasksInFlight ==
    \A c \in CallIds :
        leader_active_tasks[c] # None <=> calls[c].pc \in {"read_prompt", "agent_call"}

----------------------------------------------------------------------------
\* Further properties of the RulesEngine (checked under SpecRules).

\* C36: progress_to_phase changes only current_phase and phase_history:
\* current_complexity_used, complexity_budget and the task history of the
\* RulesEngine are the same after the call as before it, and the
\* complexity used goes down only by reset_complexity_budget.
C36_PhaseChangeKeepsBudget ==
    [][/\ last_call'.op = "progress_to_phase"
            => UNCHANGED <<complexity_budget, current_complexity_used,
                           rules_agent_registry, rules_task_history>>
       /\ (\/ current_complexity_used' < current_complexity_used
           \/ Len(rules_task_history') < Len(rules_task_history)
           \/ complexity_budget' # complexity_budget)
            => last_call'.op = "reset_complexity_budget"]_vars

\* A phase change with part of the budget used and a task in the history.
C36_Witness ==
    /\ last_call.op = "progress_to_phase"
    /\ last_call.result = TRUE
    /\ current_complexity_used > 0
    /\ rules_task_history # <<>>
    /\ Len(phase_history) > 1

\* C37: phase_history is exactly the list of the phases before the current
\* one in the fixed order: its length is the index of the current phase
\* (counted from 0) and no phase is in it twice.
C37_HistoryIsPhasesBefore ==
    /\ Len(phase_history) = PhaseIndex(current_phase) - 1
    /\ \A i \in 1..Len(phase_history) : phase_history[i] = Phase[i]
    /\ \A i, j \in 1..Len(phase_history) :
            phase_history[i] = phase_history[j] => i = j

\* The last phase is current, the ten phases before it being the history.
C37_Witness ==
    /\ PhaseIndex(current_phase) = Len(Phase)
    /\ Len(phase_history) = Len(Phase) - 1
    /\ phase_history[Len(phase_history)] = "documentation"

----------------------------------------------------------------------------
\* A further property of the background queue (checked under SpecQueueFair).

====
